---- MODULE Spec2Model ----
(***************************************************************************)
(* Model of src/src/redisWrapper.js: the redis wrapper of the feature      *)
(* toggle library.  Two parts share this module:                           *)
(*   - the store access layer (watchedGetSet with WATCH/MULTI/EXEC, set),  *)
(*     run by several application instances against one store (Spec);     *)
(*   - the message handler registry of one instance with its subscriber    *)
(*     connection (SpecPubSub).                                            *)
(***************************************************************************)
EXTENDS Integers, Sequences, FiniteSets, TLC

(* ------------------------------ bounds --------------------------------- *)
\* number of watchedGetSet invocations in one behaviour
NCalls == 2
\* the `attempts` argument every call is made with (stands for the default)
Attempts == 2

\* longest handler list of one channel
MaxHandlers == 2
\* number of subscriber connections created in one behaviour
MaxSubConns == 2
\* published messages in flight to the subscriber connections
MaxInFlight == 1
\* command connections one instance creates in one behaviour
MaxConns == 2
\* largest expiration time a cache entry is set with
MaxTime == 1
\* getSetCbAsync calls of one behaviour
MaxAsync == 2

(* ------------------------------ universe ------------------------------- *)
Channels == {"c1", "c2"}
Handlers == {"h1", "h2"}
Messages == {"m1"}
\* what a handler does with a message: it returns, it throws, or the
\* promise it returns rejects
Behaviours == {"ok", "throws", "rejects"}
Keys == {"k1", "k2"}
Calls == 1..NCalls
Instances == 1..NCalls

\* JavaScript values.  A string is modelled by the JSON text it holds.
Null == <<"null">>
Str(n) == <<"str", n>>
StrWs(n) == <<"strws", n>>
Num(n) == <<"num", n>>

\* the value callers pass to set(): the text " 1", which parses to 1 and
\* is not what JSON.stringify(1) gives
SetValues == {StrWs(1)}

\* the key the watchedGetSet calls and the plain set() calls of Spec work
\* on, and the instance that issues the set() calls
CallKeys == {"k1"}
Setters == {1}

\* what the callers of one behaviour do: they all go through watchedGetSet,
\* or all through watchedGetSetObject, or they only increment k1
Workloads == {"raw", "object", "increments"}

MODE == [RAW |-> "raw", OBJECT |-> "object"]
Modes == {MODE.RAW, MODE.OBJECT}

\* the newValueCallback functions callers pass
Callbacks == {"inc", "same", "null", "throw"}

VARIABLES
  store,      \* the remote store: key -> raw string, or Null when absent
  conns,      \* store side of every command connection: watched keys, CAS flag
  client,     \* per instance, the module variable `client` (0 = null)
  owner,      \* the instance every call runs in
  workload,   \* what the callers of this behaviour do, see Workloads
  calls,      \* per watchedGetSet invocation: position and locals
  outcome,    \* what the last step returned or threw to the caller, if it
              \* ended a call
  subscriberClient,  \* the module variable `subscriberClient` (0 = null)
  messageHandlers,   \* the module variable: channel -> list of handlers
  subConns,   \* store side of every subscriber connection created so far:
              \* its subscriptions and the messages in flight to it
  removed,    \* the <<channel, handler>> of Tracked for which
              \* removeMessageHandler has returned and
              \* registerMessageHandler was not called since
  event,      \* the last operation or event of the multiplexer and what
              \* it did
  cache,      \* the local cache under test: its class and its __data
  pending,    \* the getSetCbAsync calls that wait for their producer or
              \* for their turn to go on
  cacheEvent  \* the last operation on the cache and what it returned

storeVars == <<store, conns, client, owner, workload, calls, outcome>>
pubsubVars == <<subscriberClient, messageHandlers, subConns, removed, event>>
cacheVars == <<cache, pending, cacheEvent>>
vars == <<store, conns, client, owner, workload, calls, outcome,
          subscriberClient, messageHandlers, subConns, removed, event,
          cache, pending, cacheEvent>>

(* --------------------------- value conversion -------------------------- *)
\* JSON.parse of a stored text
JSONparse(raw) ==
  CASE raw[1] = "str" -> Num(raw[2])
    [] raw[1] = "strws" -> Num(raw[2])

\* JSON.stringify of a value
JSONstringify(value) ==
  CASE value[1] = "num" -> Str(value[2])
    [] value[1] = "null" -> <<"strnull">>

\* line 213
DecodeOld(mode, oldValueRaw) ==
  IF mode = MODE.RAW THEN oldValueRaw
  ELSE IF oldValueRaw = Null THEN Null ELSE JSONparse(oldValueRaw)

EncodeNew_NoNullCase(mode, newValue) ==
  IF mode = MODE.RAW THEN newValue ELSE JSONstringify(newValue)

\* line 215
EncodeNew(mode, newValue) ==
  IF mode = MODE.RAW THEN newValue
  ELSE IF newValue = Null THEN Null ELSE JSONstringify(newValue)

\* the callbacks: "inc" counts up (on texts for a raw mode call, on numbers
\* for an object mode call, from 1 when there is no value), "same" returns
\* its input, "null" returns null; "throw" throws instead of returning
NewValueCallback(cb, mode, oldValue) ==
  CASE cb = "same" -> oldValue
    [] cb = "null" -> Null
    [] cb = "inc" ->
         CASE oldValue[1] = "null" -> IF mode = MODE.RAW THEN Str(1) ELSE Num(1)
           [] oldValue[1] = "num" -> Num(oldValue[2] + 1)
           [] OTHER -> Str(oldValue[2] + 1)

(* ------------------------------- errors -------------------------------- *)
NoError == <<>>
CallbackFailure == <<"newValueCallback failed">>
LimitError(key, attempts) ==
  <<"reached watched get set attempt limit", key, attempts>>
UnexpectedRepliesError(key, attempt, attempts, replies) ==
  <<"received unexpected replies from redis", key, attempt, attempts, replies>>
WatchedGetSetError(key, cause) ==
  <<"error during watched get set", key, cause>>

(* ------------------------- the store (redis server) -------------------- *)
\* a command connection is named by its instance and its creation number
ConnOf(i) == <<i, client[i]>>

NewConn == [watching |-> {}, dirty |-> FALSE, closed |-> FALSE]

\* a write to `key` flags every connection that watches it
RedisTouch(cs, key) ==
  [c \in DOMAIN cs |->
     IF key \in cs[c].watching THEN [cs[c] EXCEPT !.dirty = TRUE] ELSE cs[c]]

\* WATCH key
RedisWatch(cs, conn, key) ==
  [cs EXCEPT ![conn].watching = @ \cup {key}]

\* GET key
RedisGet(st, key) == st[key]

\* SET key value: store and connections afterwards
RedisSetStore(st, key, valueRaw) == [st EXCEPT ![key] = valueRaw]

\* DEL key
RedisDelStore(st, key) == [st EXCEPT ![key] = Null]
RedisDelReply(st, key) == IF st[key] = Null THEN ":0" ELSE ":1"

\* EXEC drops the watches and the CAS flag of its connection
RedisUnwatch(cs, conn) == [cs EXCEPT ![conn] = NewConn]

\* MULTI, one command, EXEC on `conn`: the replies (Null when aborted),
\* the store and the connections afterwards
RedisExec(st, cs, conn, doDelete, key, valueRaw) ==
  IF cs[conn].dirty
  THEN [replies |-> Null, store |-> st, conns |-> RedisUnwatch(cs, conn)]
  ELSE IF doDelete
  THEN [replies |-> <<RedisDelReply(st, key)>>,
        store |-> RedisDelStore(st, key),
        conns |-> IF st[key] = Null THEN RedisUnwatch(cs, conn)
                  ELSE RedisTouch(RedisUnwatch(cs, conn), key)]
  ELSE [replies |-> <<"OK">>,
        store |-> RedisSetStore(st, key, valueRaw),
        conns |-> RedisTouch(RedisUnwatch(cs, conn), key)]

(* --------------------------- connection handles ------------------------ *)
\* _createClient when the handle is null (lines 103-115, 200-206, 140-146)
\* the connections an instance has created so far are numbered from 1
NumConns(cs, i) == Cardinality({conn \in DOMAIN cs : conn[1] = i})
ClientAfterCreate(i) ==
  IF client[i] = 0 THEN [client EXCEPT ![i] = NumConns(conns, i) + 1] ELSE client
ConnsAfterCreate(i) ==
  IF client[i] = 0
  THEN (<<i, NumConns(conns, i) + 1>> :> NewConn) @@ conns ELSE conns

\* QUIT on a command connection: the connection is closed and the store
\* forgets its watches
RedisQuitConn(cs, conn) == [cs EXCEPT ![conn] = [NewConn EXCEPT !.closed = TRUE]]

\* reading a property of the null handle
TypeError == <<"TypeError: Cannot read properties of null">>

(* -------------------------------- Init --------------------------------- *)
IdleCall ==
  [pc |-> "idle", key |-> "k1", cb |-> "same", mode |-> MODE.RAW,
   attempts |-> Attempts, attempt |-> 0, conn |-> 0,
   oldValueRaw |-> Null, newValue |-> Null, commits |-> 0]

NoOutcome == [call |-> 0, op |-> "none", args |-> <<>>, result |-> Null,
              err |-> NoError]

\* calls are assigned to instances up to renaming of the instances
Owners ==
  {o \in [Calls -> Instances] :
     /\ o[1] = 1
     /\ \A c \in Calls : c > 1 =>
          \E d \in 1..(c - 1) : o[c] <= o[d] + 1}

NoEvent ==
  [op |-> "none", channel |-> "", handler |-> "", message |-> "",
   invoked |-> <<>>, logged |-> <<>>, raised |-> FALSE, unsubscribed |-> FALSE]

\* no own property of that name in __data
Absent == <<"absent">>
CacheKeys == {"a"}
\* __data of a cache that was just constructed (lazyCaches.js, line 8)
NewCache(kind) == [kind |-> kind, data |-> [k \in CacheKeys |-> Absent]]
NoCacheEvent ==
  [op |-> "none", key |-> "", now |-> 0, call |-> 0, result |-> Null,
   produced |-> 0]
\* gave: what the producer of the call resolved to, once it has
NoPending == [pc |-> "idle", key |-> "", now |-> 0, gave |-> Absent]

\* the module state of lines 19-21, an empty store, and no cache
InitModule ==
  /\ store = [k \in Keys |-> Null]
  /\ conns = <<>>
  /\ client = [i \in Instances |-> 0]
  /\ calls = [c \in Calls |-> IdleCall]
  /\ outcome = NoOutcome
  /\ subscriberClient = 0
  /\ messageHandlers = <<>>
  /\ subConns = <<>>
  /\ removed = {}
  /\ event = NoEvent
  /\ cache = NewCache("none")
  /\ pending = [p \in 1..MaxAsync |-> NoPending]
  /\ cacheEvent = NoCacheEvent

Init ==
  /\ InitModule
  /\ owner \in Owners
  /\ workload \in Workloads

(* ------------------------------ _watchedGetSet ------------------------- *)
\* lines 199-207: the call starts, creating the client when there is none
Start(c, key, cb, mode) ==
  /\ calls[c].pc = "idle"
  /\ \A d \in Calls : d < c => calls[d].pc # "idle"
  /\ workload = "increments" => key = "k1" /\ cb = "inc"
  /\ workload = "raw" => mode = MODE.RAW
  /\ workload = "object" => mode = MODE.OBJECT
  /\ workload = "errors" => c = 1 /\ cb = "inc" /\ mode = MODE.RAW
  /\ workload = "keys" =>
       key = (IF c = 1 THEN "k1" ELSE "k2") /\ mode = MODE.RAW
  /\ client[owner[c]] = 0 => NumConns(conns, owner[c]) < MaxConns
  /\ client' = ClientAfterCreate(owner[c])
  /\ conns' = ConnsAfterCreate(owner[c])
  /\ calls' = [calls EXCEPT ![c] =
                 [IdleCall EXCEPT !.pc = "watch", !.key = key, !.cb = cb,
                                  !.mode = mode, !.attempt = 1]]
  /\ outcome' = NoOutcome
  /\ UNCHANGED <<store, owner, workload, pubsubVars, cacheVars>>

Ended_LoopsOn(call, pc) ==
  IF pc = "done" THEN [call EXCEPT !.pc = "watch"]
  ELSE [IdleCall EXCEPT !.pc = pc, !.commits = call.commits]

\* a call that ended: its locals are gone
Ended(call, pc) == [IdleCall EXCEPT !.pc = pc, !.commits = call.commits]
Returned(c, result) == [NoOutcome EXCEPT !.call = c, !.result = result]
Threw(c, err) == [NoOutcome EXCEPT !.call = c, !.err = err]

Watch_NotPlaced(c) ==
  /\ calls[c].pc = "watch"
  /\ calls' = [calls EXCEPT ![c].pc = "get"]
  /\ outcome' = NoOutcome
  /\ UNCHANGED <<store, conns, client, owner, workload, pubsubVars, cacheVars>>

\* line 210: await client.watchAsync(key)
Watch(c) ==
  /\ calls[c].pc = "watch"
  /\ IF client[owner[c]] = 0
     THEN /\ calls' = [calls EXCEPT ![c] = Ended(calls[c], "failed")]
          /\ outcome' = Threw(c, WatchedGetSetError(calls[c].key, TypeError))
          /\ UNCHANGED conns
     ELSE /\ conns' = RedisWatch(conns, ConnOf(owner[c]), calls[c].key)
          /\ calls' = [calls EXCEPT ![c].pc = "get",
                                    ![c].conn = client[owner[c]]]
          /\ outcome' = NoOutcome
  /\ UNCHANGED <<store, client, owner, workload, pubsubVars, cacheVars>>

\* line 212: await client.getAsync(key)
Get(c) ==
  /\ calls[c].pc = "get"
  /\ IF client[owner[c]] = 0
     THEN /\ calls' = [calls EXCEPT ![c] = Ended(calls[c], "failed")]
          /\ outcome' = Threw(c, WatchedGetSetError(calls[c].key, TypeError))
     ELSE /\ calls' = [calls EXCEPT ![c].pc = "callback",
                          ![c].oldValueRaw = RedisGet(store, calls[c].key)]
          /\ outcome' = NoOutcome
  /\ UNCHANGED <<store, conns, client, owner, workload, pubsubVars, cacheVars>>

RawUnchanged_OnlyIfPresent(oldValueRaw, newValueRaw) ==
  oldValueRaw # Null /\ oldValueRaw = newValueRaw

\* line 217: oldValueRaw === newValueRaw
RawUnchanged(oldValueRaw, newValueRaw) == oldValueRaw = newValueRaw

\* lines 213-219: decode, await newValueCallback(oldValue), encode, and
\* return the old value when the raw values are equal
Callback(c) ==
  LET call == calls[c]
      oldValue == DecodeOld(call.mode, call.oldValueRaw)
      newValue == NewValueCallback(call.cb, call.mode, oldValue)
      newValueRaw == EncodeNew(call.mode, newValue)
  IN /\ call.pc = "callback"
     /\ IF call.cb = "throw"
        THEN /\ calls' = [calls EXCEPT ![c] = Ended(call, "failed")]
             /\ outcome' = Threw(c, WatchedGetSetError(call.key, CallbackFailure))
        ELSE IF RawUnchanged(call.oldValueRaw, newValueRaw)
        THEN /\ calls' = [calls EXCEPT ![c] = Ended(call, "done")]
             /\ outcome' = Returned(c, oldValue)
        ELSE /\ calls' = [calls EXCEPT ![c].pc = "exec", ![c].newValue = newValue]
             /\ outcome' = NoOutcome
     /\ UNCHANGED <<store, conns, client, owner, workload, pubsubVars, cacheVars>>

\* line 230: the replies of a commit are the one expected reply
RepliesExpected(replies, doDelete) ==
  /\ Len(replies) = 1
  /\ replies[1] = (IF doDelete THEN ":1" ELSE "OK")

HasAttemptLeft_OffByOne(call) == call.attempt + 1 < call.attempts

\* line 208: the loop goes on to another attempt
HasAttemptLeft(call) == call.attempt + 1 <= call.attempts

NextAttempt_KeepsOldValue(call) ==
  [call EXCEPT !.pc = "callback", !.attempt = @ + 1]

\* line 208: attempt++ and the body of the loop again, with new locals
NextAttempt(call) ==
  [call EXCEPT !.pc = "watch", !.attempt = @ + 1, !.conn = 0,
               !.oldValueRaw = Null, !.newValue = Null]

\* lines 221-242: the transaction with one del or one set, the check of
\* its replies, and the next attempt or the attempt limit error
Exec(c) ==
  LET call == calls[c]
      newValueRaw == EncodeNew(call.mode, call.newValue)
      doDelete == newValueRaw = Null
      r == RedisExec(store, conns, ConnOf(owner[c]), doDelete, call.key, newValueRaw)
  IN /\ call.pc = "exec"
     /\ IF client[owner[c]] = 0
        THEN /\ calls' = [calls EXCEPT ![c] = Ended(call, "failed")]
             /\ outcome' = Threw(c, WatchedGetSetError(call.key, TypeError))
             /\ UNCHANGED <<store, conns>>
        ELSE /\ store' = r.store
             /\ conns' = r.conns
             /\ IF r.replies # Null
                THEN LET committed == [call EXCEPT !.commits = @ + 1]
                     IN IF ~RepliesExpected(r.replies, doDelete)
                        THEN /\ calls' = [calls EXCEPT ![c] = Ended(committed, "failed")]
                             /\ outcome' = Threw(c, WatchedGetSetError(call.key,
                                  UnexpectedRepliesError(call.key, call.attempt,
                                                         call.attempts, r.replies)))
                        ELSE /\ calls' = [calls EXCEPT ![c] = Ended(committed, "done")]
                             /\ outcome' = Returned(c, call.newValue)
                ELSE IF HasAttemptLeft(call)
                THEN /\ calls' = [calls EXCEPT ![c] = NextAttempt(call)]
                     /\ outcome' = NoOutcome
                ELSE /\ calls' = [calls EXCEPT ![c] = Ended(call, "failed")]
                     /\ outcome' = Threw(c, LimitError(call.key, call.attempts))
     /\ UNCHANGED <<client, owner, workload, pubsubVars, cacheVars>>

(* ---------------------------------- set -------------------------------- *)
\* lines 185, 139-157: set(key, value) through _clientExec
Set(i, key, valueRaw) ==
  /\ workload # "increments"
  /\ client' = ClientAfterCreate(i)
  /\ store' = RedisSetStore(store, key, valueRaw)
  /\ conns' = RedisTouch(ConnsAfterCreate(i), key)
  /\ outcome' = NoOutcome
  /\ UNCHANGED <<owner, workload, calls, pubsubVars, cacheVars>>

(* ------------------------------ specification -------------------------- *)
Next ==
  \/ \E c \in Calls, key \in CallKeys, cb \in Callbacks, mode \in Modes :
       Start(c, key, cb, mode)
  \/ \E c \in Calls : Watch(c)
  \/ \E c \in Calls : Get(c)
  \/ \E c \in Calls : Callback(c)
  \/ \E c \in Calls : Exec(c)
  \/ \E i \in Setters, key \in CallKeys, valueRaw \in SetValues :
       Set(i, key, valueRaw)

Spec == Init /\ [][Next]_vars

\* calls of one process on different keys: the first call works on k1, the
\* later ones on k2, and set() writes k1 only
InitKeys ==
  /\ InitModule
  /\ owner = [c \in Calls |-> 1]
  /\ workload = "keys"

NextKeys ==
  \/ \E c \in Calls, key \in Keys, cb \in Callbacks : Start(c, key, cb, MODE.RAW)
  \/ \E c \in Calls : Watch(c)
  \/ \E c \in Calls : Get(c)
  \/ \E c \in Calls : Callback(c)
  \/ \E c \in Calls : Exec(c)
  \/ \E valueRaw \in SetValues : Set(1, "k1", valueRaw)

SpecKeys == InitKeys /\ [][NextKeys]_vars

(* ===================== change notification multiplexer ================= *)
\* line 33
HasMessageHandlers(channel) == channel \in DOMAIN messageHandlers

NewSubConn == [subscribed |-> {}, inbox |-> <<>>, closed |-> FALSE]

\* SUBSCRIBE / UNSUBSCRIBE channel on a subscriber connection
RedisSubscribe(scs, conn, channel) ==
  [scs EXCEPT ![conn].subscribed = @ \cup {channel}]
RedisUnsubscribe(scs, conn, channel) ==
  [scs EXCEPT ![conn].subscribed = @ \ {channel}]
\* QUIT: the store forgets the subscriptions of the connection; what is
\* already in flight to it still arrives
RedisQuit(scs, conn) ==
  [scs EXCEPT ![conn].subscribed = {}, ![conn].closed = TRUE]

\* Array.prototype.findIndex with an identity test: the 0-based index of
\* the first occurrence, -1 when there is none
FindIndex(handlers, handler) ==
  IF \E i \in 1..Len(handlers) : handlers[i] = handler
  THEN (CHOOSE i \in 1..Len(handlers) :
          /\ handlers[i] = handler
          /\ \A j \in 1..(i - 1) : handlers[j] # handler) - 1
  ELSE -1

\* Array.prototype.splice(index, 1): a negative index counts from the end
Splice1(handlers, index) ==
  LET len == Len(handlers)
      start == IF index < 0
               THEN (IF len + index < 0 THEN 0 ELSE len + index)
               ELSE (IF index > len THEN len ELSE index)
  IN SubSeq(handlers, 1, start) \o SubSeq(handlers, start + 2, len)

DeleteProperty_KeepsEmpty(mh, channel) == [mh EXCEPT ![channel] = <<>>]

\* Reflect.deleteProperty(messageHandlers, channel)
DeleteProperty(mh, channel) == [ch \in DOMAIN mh \ {channel} |-> mh[ch]]

\* lines 49-60 without the try/catch of lines 51-58: a handler that throws
\* ends the map, a handler that rejects fails the Promise.all
RECURSIVE DispatchFrom_NoCatch(_, _, _, _)
DispatchFrom_NoCatch(handlers, i, message, behaviour) ==
  IF i > Len(handlers)
  THEN [invoked |-> <<>>, logged |-> <<>>, raised |-> FALSE]
  ELSE LET handler == handlers[i]
           rest == DispatchFrom_NoCatch(handlers, i + 1, message, behaviour)
       IN IF behaviour[handler] = "throws"
          THEN [invoked |-> << <<handler, message>> >>, logged |-> <<>>,
                raised |-> TRUE]
          ELSE [invoked |-> << <<handler, message>> >> \o rest.invoked,
                logged |-> <<>>,
                raised |-> behaviour[handler] = "rejects" \/ rest.raised]

\* lines 49-60: handlers.map over the list from index i on: every handler
\* is called with the message, a failure is caught and logged
RECURSIVE DispatchFrom(_, _, _, _)
DispatchFrom(handlers, i, message, behaviour) ==
  IF i > Len(handlers)
  THEN [invoked |-> <<>>, logged |-> <<>>, raised |-> FALSE]
  ELSE LET handler == handlers[i]
           rest == DispatchFrom(handlers, i + 1, message, behaviour)
       IN [invoked |-> << <<handler, message>> >> \o rest.invoked,
           logged |-> (IF behaviour[handler] = "ok" THEN <<>> ELSE <<handler>>)
                      \o rest.logged,
           raised |-> rest.raised]

\* lines 292-306
RegisterMessageHandler(channel, handler) ==
  LET create == subscriberClient = 0
      sub == IF create THEN Len(subConns) + 1 ELSE subscriberClient
      scs == IF create THEN Append(subConns, NewSubConn) ELSE subConns
  IN /\ create => Len(subConns) < MaxSubConns
     /\ HasMessageHandlers(channel) => Len(messageHandlers[channel]) < MaxHandlers
     /\ subscriberClient' = sub
     /\ IF ~HasMessageHandlers(channel)
        THEN /\ messageHandlers' = (channel :> <<handler>>) @@ messageHandlers
             /\ subConns' = RedisSubscribe(scs, sub, channel)
        ELSE /\ messageHandlers' =
                  [messageHandlers EXCEPT ![channel] = Append(@, handler)]
             /\ subConns' = scs
     /\ removed' = removed \ {<<channel, handler>>}
     /\ event' = [NoEvent EXCEPT !.op = "registerMessageHandler"]
     /\ UNCHANGED <<storeVars, cacheVars>>

\* the registrations the history variable `removed` follows: one pair, the
\* channels and the handlers being alike
Tracked == {<<"c1", "h1">>}

\* the handler is registered at most once for the channel
AtMostOnce(channel, handler) ==
  HasMessageHandlers(channel) =>
    Cardinality({i \in 1..Len(messageHandlers[channel]) :
                   messageHandlers[channel][i] = handler}) <= 1

\* lines 314-324
RemoveMessageHandler(channel, handler) ==
  /\ IF subscriberClient = 0 \/ ~HasMessageHandlers(channel)
     THEN /\ UNCHANGED <<messageHandlers, subConns>>
          /\ event' = [NoEvent EXCEPT !.op = "removeMessageHandler",
                                      !.channel = channel, !.handler = handler]
     ELSE LET index == FindIndex(messageHandlers[channel], handler)
              spliced == Splice1(messageHandlers[channel], index)
          IN IF Len(spliced) = 0
             THEN /\ messageHandlers' = DeleteProperty(messageHandlers, channel)
                  /\ subConns' = RedisUnsubscribe(subConns, subscriberClient, channel)
                  /\ event' = [NoEvent EXCEPT !.op = "removeMessageHandler",
                                 !.channel = channel, !.handler = handler,
                                 !.unsubscribed = TRUE]
             ELSE /\ messageHandlers' = [messageHandlers EXCEPT ![channel] = spliced]
                  /\ subConns' = subConns
                  /\ event' = [NoEvent EXCEPT !.op = "removeMessageHandler",
                                 !.channel = channel, !.handler = handler]
  /\ removed' = IF AtMostOnce(channel, handler)
                THEN removed \cup ({<<channel, handler>>} \cap Tracked)
                ELSE removed
  /\ UNCHANGED <<subscriberClient, storeVars, cacheVars>>

\* lines 331-337
RemoveAllMessageHandlers(channel) ==
  /\ IF subscriberClient = 0 \/ ~HasMessageHandlers(channel)
     THEN /\ UNCHANGED <<messageHandlers, subConns>>
          /\ event' = [NoEvent EXCEPT !.op = "removeAllMessageHandlers",
                                      !.channel = channel]
     ELSE /\ messageHandlers' = DeleteProperty(messageHandlers, channel)
          /\ subConns' = RedisUnsubscribe(subConns, subscriberClient, channel)
          /\ event' = [NoEvent EXCEPT !.op = "removeAllMessageHandlers",
                                      !.channel = channel, !.unsubscribed = TRUE]
  /\ UNCHANGED <<subscriberClient, removed, storeVars, cacheVars>>

\* lines 129-133: the "error" listener of a subscriber connection quits the
\* connection in `subscriberClient` and nulls the handle; with a null
\* handle the listener itself throws
SubscriberError(conn) ==
  /\ conn \in 1..Len(subConns)
  /\ IF subscriberClient = 0
     THEN /\ UNCHANGED <<subscriberClient, subConns>>
          /\ event' = [NoEvent EXCEPT !.op = "error", !.raised = TRUE]
     ELSE /\ subConns' = RedisQuit(subConns, subscriberClient)
          /\ subscriberClient' = 0
          /\ event' = [NoEvent EXCEPT !.op = "error"]
  /\ UNCHANGED <<messageHandlers, removed, storeVars, cacheVars>>

\* number of messages in flight to the connections conn..Len(scs)
RECURSIVE InFlight(_, _)
InFlight(scs, conn) ==
  IF conn > Len(scs) THEN 0 ELSE Len(scs[conn].inbox) + InFlight(scs, conn + 1)

\* PUBLISH channel message: the message goes out to every connection
\* subscribed to the channel
RedisPublish(scs, channel, message) ==
  [conn \in 1..Len(scs) |->
     IF channel \in scs[conn].subscribed
     THEN [scs[conn] EXCEPT !.inbox = Append(@, <<channel, message>>)]
     ELSE scs[conn]]

\* PUBLISH by any client of the store
Publish(channel, message) ==
  LET targets == {conn \in 1..Len(subConns) : channel \in subConns[conn].subscribed}
  IN /\ targets # {}
     /\ InFlight(subConns, 1) + Cardinality(targets) <= MaxInFlight
     /\ subConns' = RedisPublish(subConns, channel, message)
     /\ event' = [NoEvent EXCEPT !.op = "publish"]
     /\ UNCHANGED <<subscriberClient, messageHandlers, removed, storeVars, cacheVars>>

\* lines 44-61, 135: a "message" event of a subscriber connection
OnMessage(conn, behaviour) ==
  /\ conn \in 1..Len(subConns)
  /\ subConns[conn].inbox # <<>>
  /\ \A handler \in Handlers :
       behaviour[handler] # "ok" =>
         /\ HasMessageHandlers(Head(subConns[conn].inbox)[1])
         /\ \E i \in 1..Len(messageHandlers[Head(subConns[conn].inbox)[1]]) :
              messageHandlers[Head(subConns[conn].inbox)[1]][i] = handler
  /\ LET incomingChannel == Head(subConns[conn].inbox)[1]
         message == Head(subConns[conn].inbox)[2]
         d == IF ~HasMessageHandlers(incomingChannel)
              THEN [invoked |-> <<>>, logged |-> <<>>, raised |-> FALSE]
              ELSE DispatchFrom(messageHandlers[incomingChannel], 1, message,
                                behaviour)
     IN event' = [NoEvent EXCEPT !.op = "message", !.channel = incomingChannel,
                    !.message = message, !.invoked = d.invoked,
                    !.logged = d.logged, !.raised = d.raised]
  /\ subConns' = [subConns EXCEPT ![conn].inbox = Tail(@)]
  /\ UNCHANGED <<subscriberClient, messageHandlers, removed, storeVars, cacheVars>>

InitPubSub ==
  /\ InitModule
  /\ owner = [c \in Calls |-> 1]
  /\ workload = "raw"

NextPubSub ==
  \/ \E channel \in Channels, handler \in Handlers :
       RegisterMessageHandler(channel, handler)
  \/ \E channel \in Channels, handler \in Handlers :
       RemoveMessageHandler(channel, handler)
  \/ \E channel \in Channels : RemoveAllMessageHandlers(channel)
  \/ \E conn \in 1..MaxSubConns : SubscriberError(conn)
  \/ \E channel \in Channels, message \in Messages : Publish(channel, message)
  \/ \E conn \in 1..MaxSubConns, behaviour \in [Handlers -> Behaviours] :
       OnMessage(conn, behaviour)

SpecPubSub == InitPubSub /\ [][NextPubSub]_vars

(* ------------------ handlers that change the registry ------------------ *)
\* what a handler does, synchronously, when it is called: nothing, or
\* removeMessageHandler / registerMessageHandler for the channel of the
\* message and one of the handlers (itself or a sibling)
Reactions ==
  {<<"none", "">>} \cup
  {<<op, target>> : op \in {"remove", "register"}, target \in Handlers}

\* lines 314-324 inside a running dispatch. `local` is the array the
\* dispatch iterates (line 48); while `linked`, it is the very array of
\* messageHandlers[channel], which splice changes in place
RemoveIn(s, channel, handler) ==
  IF s.sub = 0 \/ channel \notin DOMAIN s.mh THEN s
  ELSE LET spliced == Splice1(s.mh[channel], FindIndex(s.mh[channel], handler))
       IN IF Len(spliced) = 0
          THEN [s EXCEPT !.mh = DeleteProperty(s.mh, channel),
                         !.scs = RedisUnsubscribe(s.scs, s.sub, channel),
                         !.local = IF s.linked THEN <<>> ELSE @,
                         !.linked = FALSE]
          ELSE [s EXCEPT !.mh = [s.mh EXCEPT ![channel] = spliced]]

\* lines 300-312 inside a running dispatch: push changes the array in
\* place, a channel without entry gets a new array
RegisterIn(s, channel, handler) ==
  LET create == s.sub = 0
      sub == IF create THEN Len(s.scs) + 1 ELSE s.sub
      scs == IF create THEN Append(s.scs, NewSubConn) ELSE s.scs
  IN IF channel \notin DOMAIN s.mh
     THEN [s EXCEPT !.sub = sub,
                    !.mh = (channel :> <<handler>>) @@ s.mh,
                    !.scs = RedisSubscribe(scs, sub, channel)]
     ELSE [s EXCEPT !.sub = sub, !.scs = scs,
                    !.mh = [s.mh EXCEPT ![channel] = Append(@, handler)]]

React(s, channel, reaction) ==
  CASE reaction[1] = "none" -> s
    [] reaction[1] = "remove" -> RemoveIn(s, channel, reaction[2])
    [] reaction[1] = "register" -> RegisterIn(s, channel, reaction[2])

\* lines 49-50: Array.prototype.map over the array of line 48. The length
\* is taken once, before the first call; index k is visited when the array
\* still has an element there, and the callback gets the element found
\* there at that time. The callback calls the handler synchronously.
RECURSIVE MapFrom(_, _, _, _, _, _)
MapFrom(s, k, len, channel, message, reaction) ==
  IF k > len THEN s
  ELSE LET array == IF s.linked THEN s.mh[channel] ELSE s.local
       IN IF k > Len(array)
          THEN MapFrom(s, k + 1, len, channel, message, reaction)
          ELSE LET handler == array[k]
                   t == React(s, channel, reaction[handler])
               IN MapFrom([t EXCEPT !.invoked = Append(@, <<handler, message>>)],
                          k + 1, len, channel, message, reaction)

\* lines 44-61, 135: a "message" event whose handlers react on the registry
OnMessageReacting(conn, reaction) ==
  /\ conn \in 1..Len(subConns)
  /\ subConns[conn].inbox # <<>>
  /\ LET incomingChannel == Head(subConns[conn].inbox)[1]
         message == Head(subConns[conn].inbox)[2]
         taken == [subConns EXCEPT ![conn].inbox = Tail(@)]
         s0 == [sub |-> subscriberClient, mh |-> messageHandlers, scs |-> taken,
                local |-> <<>>, linked |-> TRUE, invoked |-> <<>>]
         s == IF ~HasMessageHandlers(incomingChannel) THEN s0
              ELSE MapFrom(s0, 1, Len(messageHandlers[incomingChannel]),
                           incomingChannel, message, reaction)
     IN /\ ~HasMessageHandlers(incomingChannel) =>
             \A handler \in Handlers : reaction[handler][1] = "none"
        /\ \A handler \in Handlers :
             reaction[handler][1] # "none" =>
               \E i \in 1..Len(s.invoked) : s.invoked[i][1] = handler
        /\ \A channel \in DOMAIN s.mh : Len(s.mh[channel]) <= MaxHandlers
        /\ Len(s.scs) <= MaxSubConns
        /\ subscriberClient' = s.sub
        /\ messageHandlers' = s.mh
        /\ subConns' = s.scs
        /\ event' = [NoEvent EXCEPT !.op = "message", !.channel = incomingChannel,
                       !.message = message, !.invoked = s.invoked]
  /\ UNCHANGED <<removed, storeVars, cacheVars>>

InitReacting ==
  /\ InitModule
  /\ owner = [c \in Calls |-> 1]
  /\ workload = "reacting"

NextReacting ==
  \/ \E channel \in Channels, handler \in Handlers :
       RegisterMessageHandler(channel, handler)
  \/ \E channel \in Channels, handler \in Handlers :
       RemoveMessageHandler(channel, handler)
  \/ \E channel \in Channels, message \in Messages : Publish(channel, message)
  \/ \E conn \in 1..MaxSubConns, reaction \in [Handlers -> Reactions] :
       OnMessageReacting(conn, reaction)

SpecReacting == InitReacting /\ [][NextReacting]_vars

(* ===================== lifecycle of the command connection ============= *)
\* the operations that go through _clientExec, and the method of the
\* client each of them names
ClientOps == {"get", "getObject", "set", "setObject", "publishMessage"}
FunctionName(op) ==
  CASE op \in {"get", "getObject"} -> "getAsync"
    [] op \in {"set", "setObject"} -> "setAsync"
    [] op = "publishMessage" -> "publish"

\* the causes of a failure: cfServiceCredentials throws (lines 74-85), the
\* store answers a command with an error
CredentialsFailure ==
  <<"error during create client with redis-cache service", <<"no credentials">> >>
CommandFailure == <<"ReplyError">>
\* lines 144 and 151-155
CreateClientError(cause) == <<"error during create client", cause>>
ClientExecError(functionName, argsObject, cause) ==
  <<"error during redis client", functionName, argsObject, cause>>

\* what the caller of setObject and of publishMessage passes
ObjectValue == Num(1)
ReplyOK == <<"reply", "OK">>
\* client.publish is called without a callback: what it returns is not
\* the reply of the store but whether the command was written out
Written == <<"boolean", "true">>

\* lines 139-157: _clientExec(functionName, argsObject) in instance i; the
\* result or the error of the call, and the state it leaves
ClientExec(i, functionName, argsObject, createFails, commandFails) ==
  LET cl == ClientAfterCreate(i)
      cs == ConnsAfterCreate(i)
  IN IF client[i] = 0 /\ createFails
     THEN [result |-> Null, err |-> CreateClientError(CredentialsFailure),
           client |-> client, conns |-> conns, store |-> store,
           subConns |-> subConns]
     ELSE IF functionName = "publish"
     THEN [result |-> Written, err |-> NoError, client |-> cl, conns |-> cs,
           store |-> store,
           subConns |-> IF commandFails THEN subConns
                        ELSE RedisPublish(subConns, argsObject[1], argsObject[2])]
     ELSE IF commandFails
     THEN [result |-> Null,
           err |-> ClientExecError(functionName, argsObject, CommandFailure),
           client |-> cl, conns |-> cs, store |-> store, subConns |-> subConns]
     ELSE IF functionName = "getAsync"
     THEN [result |-> RedisGet(store, argsObject[1]), err |-> NoError,
           client |-> cl, conns |-> cs, store |-> store, subConns |-> subConns]
     ELSE [result |-> ReplyOK, err |-> NoError, client |-> cl,
           conns |-> RedisTouch(cs, argsObject[1]),
           store |-> RedisSetStore(store, argsObject[1], argsObject[2]),
           subConns |-> subConns]

\* lines 165, 173-176, 185, 194-197, 283: the arguments an operation hands
\* to _clientExec and what it makes of the result
ArgsObject(op, key, channel) ==
  CASE op \in {"get", "getObject"} -> <<key>>
    [] op = "set" -> <<key, StrWs(1)>>
    [] op = "setObject" -> <<key, JSONstringify(ObjectValue)>>
    [] op = "publishMessage" -> <<channel, "m1">>
ResultOf(op, result) ==
  IF op = "getObject" /\ result # Null THEN JSONparse(result) ELSE result

\* get, getObject, set, setObject or publishMessage called in instance i
ClientOp(i, op, key, channel, createFails, commandFails) ==
  LET r == ClientExec(i, FunctionName(op), ArgsObject(op, key, channel),
                      createFails, commandFails)
  IN /\ createFails => client[i] = 0 /\ ~commandFails
     /\ (client[i] = 0 /\ ~createFails) => NumConns(conns, i) < MaxConns
     /\ client' = r.client
     /\ conns' = r.conns
     /\ store' = r.store
     /\ subConns' = r.subConns
     /\ outcome' = [NoOutcome EXCEPT !.op = op,
                      !.args = <<ArgsObject(op, key, channel), createFails,
                                 commandFails>>,
                      !.result = IF r.err = NoError THEN ResultOf(op, r.result)
                                 ELSE Null,
                      !.err = r.err]
     /\ UNCHANGED <<owner, workload, calls, subscriberClient, messageHandlers,
                    removed, event, cacheVars>>

ClientError_NoQuit(i, n) ==
  /\ <<i, n>> \in DOMAIN conns
  /\ conns' = conns
  /\ client' = [client EXCEPT ![i] = 0]
  /\ outcome' = [NoOutcome EXCEPT !.op = "error", !.args = <<i, n>>]
  /\ UNCHANGED <<store, owner, workload, calls, pubsubVars, cacheVars>>

\* lines 106-110: the "error" listener of a command connection of instance
\* i quits the connection in `client`, if there is one, and nulls the handle
ClientError(i, n) ==
  /\ <<i, n>> \in DOMAIN conns
  /\ conns' = IF client[i] # 0 THEN RedisQuitConn(conns, ConnOf(i)) ELSE conns
  /\ client' = [client EXCEPT ![i] = 0]
  /\ outcome' = [NoOutcome EXCEPT !.op = "error", !.args = <<i, n>>]
  /\ UNCHANGED <<store, owner, workload, calls, pubsubVars, cacheVars>>

\* one process: a behaviour exercises either its command connection or its
\* subscriber connection, which share no state
InitConn ==
  /\ InitModule
  /\ owner = [c \in Calls |-> 1]
  /\ workload \in {"errors", "subscriber"}

NextConn ==
  \/ /\ workload = "errors"
     /\ \/ \E c \in Calls, key \in CallKeys, cb \in Callbacks, mode \in Modes :
            Start(c, key, cb, mode)
        \/ \E c \in Calls : Watch(c)
        \/ \E c \in Calls : Get(c)
        \/ \E c \in Calls : Callback(c)
        \/ \E c \in Calls : Exec(c)
        \/ \E op \in ClientOps, key \in CallKeys, channel \in {"c1"},
              createFails \in BOOLEAN, commandFails \in BOOLEAN :
            ClientOp(1, op, key, channel, createFails, commandFails)
        \/ \E n \in 1..MaxConns : ClientError(1, n)
  \/ /\ workload = "subscriber"
     /\ NextPubSub

SpecConn == InitConn /\ [][NextConn]_vars

(* ========================= local caches (lazyCaches.js) ================ *)
DEFAULT_EXPIRING_GAP == 100
Undefined == <<"undefined">>
Bool(b) == <<"boolean", IF b THEN "true" ELSE "false">>
\* an array [expirationTime, value]
Pair(expirationTime, value) == <<"array", expirationTime, value>>

CacheKinds == {"LazyCache", "ExpiringLazyCache"}
\* the values callers store
CacheValues == {Null, Num(7)}
\* the expiration times callers set: 0 is falsy
Times == {Num(t) : t \in 0..MaxTime}
\* the timestamps callers ask for: around the expiration times, and around
\* their ends of validity
Nows == (0..MaxTime) \cup
        {t + DEFAULT_EXPIRING_GAP + d : t \in 1..MaxTime, d \in {0, 1}}

\* the timestamps of the getSetCbAsync calls: the last one at which the
\* latest entry is valid, and the next
AsyncNows == {MaxTime + DEFAULT_EXPIRING_GAP + d : d \in {0, 1}}

\* ToBoolean of a JavaScript value
Truthy(value) ==
  /\ value # Undefined /\ value # Null /\ value # Num(0)
  /\ value # Bool(FALSE)

\* LazyCache.has, get, set, delete (lines 20-29, 53-56) on __data
LazyCache_has(data, key) == Bool(data[key] # Absent)
LazyCache_get(data, key) == IF data[key] = Absent THEN Undefined ELSE data[key]
LazyCache_set(data, key, value) == [data EXCEPT ![key] = value]
LazyCache_delete(data, key) == [data EXCEPT ![key] = Absent]

\* const [expirationTime, value] = super.get(keyOrKeys) ?? []  (lines 78, 82)
Destructured(data, key) ==
  LET entry == LazyCache_get(data, key)
  IN IF entry = Undefined \/ entry = Null THEN Pair(Undefined, Undefined)
     ELSE entry

ExpiringLazyCache_isValid_Strict(expirationTime, currentTime) ==
  IF ~Truthy(expirationTime) THEN expirationTime
  ELSE Bool(currentTime < expirationTime[2] + DEFAULT_EXPIRING_GAP)

\* lines 71-73: expirationTime && currentTime <= expirationTime + gap
ExpiringLazyCache_isValid(expirationTime, currentTime) ==
  IF ~Truthy(expirationTime) THEN expirationTime
  ELSE Bool(currentTime <= expirationTime[2] + DEFAULT_EXPIRING_GAP)

ExpiringLazyCache_has_OwnOnly(data, key, currentTime) ==
  LazyCache_has(data, key)

\* lines 74-80
ExpiringLazyCache_has(data, key, currentTime) ==
  IF ~Truthy(LazyCache_has(data, key)) THEN Bool(FALSE)
  ELSE ExpiringLazyCache_isValid(Destructured(data, key)[2], currentTime)

\* lines 81-84
ExpiringLazyCache_get(data, key, currentTime) ==
  IF Truthy(ExpiringLazyCache_isValid(Destructured(data, key)[2], currentTime))
  THEN Destructured(data, key)[3] ELSE Null

\* lines 85-87
ExpiringLazyCache_set(data, key, expirationTime, value) ==
  LazyCache_set(data, key, Pair(expirationTime, value))

\* has, get and set of the cache under test; the producer of a LazyCache
\* returns a value, that of an ExpiringLazyCache a pair
CacheHas(c, key, now) ==
  IF c.kind = "LazyCache" THEN LazyCache_has(c.data, key)
  ELSE ExpiringLazyCache_has(c.data, key, now)
CacheGet(c, key, now) ==
  IF c.kind = "LazyCache" THEN LazyCache_get(c.data, key)
  ELSE ExpiringLazyCache_get(c.data, key, now)
CacheSet(c, key, expirationTime, value) ==
  [c EXCEPT !.data = IF c.kind = "LazyCache"
                     THEN LazyCache_set(c.data, key, value)
                     ELSE ExpiringLazyCache_set(c.data, key, expirationTime, value)]

\* new LazyCache() or new ExpiringLazyCache() (lines 7-10, 64-67)
Construct(kind) ==
  /\ cache.kind = "none"
  /\ cache' = NewCache(kind)
  /\ cacheEvent' = [NoCacheEvent EXCEPT !.op = "new"]
  /\ UNCHANGED <<pending, storeVars, pubsubVars>>

\* the arguments that make no difference to a LazyCache are left at 0
Relevant(now, expirationTime) ==
  cache.kind = "LazyCache" => now = 0 /\ expirationTime = Num(0)

\* set(key, value) / set(key, expirationTime, value)
SetOp(key, expirationTime, value) ==
  /\ cache.kind \in CacheKinds
  /\ Relevant(0, expirationTime)
  /\ cache' = CacheSet(cache, key, expirationTime, value)
  /\ cacheEvent' = [NoCacheEvent EXCEPT !.op = "set", !.key = key]
  /\ UNCHANGED <<pending, storeVars, pubsubVars>>

\* has(key) / has(key, currentTime)
HasOp(key, now) ==
  /\ cache.kind \in CacheKinds
  /\ Relevant(now, Num(0))
  /\ cacheEvent' = [NoCacheEvent EXCEPT !.op = "has", !.key = key, !.now = now,
                      !.result = CacheHas(cache, key, now)]
  /\ UNCHANGED <<cache, pending, storeVars, pubsubVars>>

\* get(key) / get(key, currentTime)
GetOp(key, now) ==
  /\ cache.kind \in CacheKinds
  /\ Relevant(now, Num(0))
  /\ cacheEvent' = [NoCacheEvent EXCEPT !.op = "get", !.key = key, !.now = now,
                      !.result = CacheGet(cache, key, now)]
  /\ UNCHANGED <<cache, pending, storeVars, pubsubVars>>

\* lines 53-56
DeleteOp(key) ==
  /\ cache.kind \in CacheKinds
  /\ cache' = [cache EXCEPT !.data = LazyCache_delete(@, key)]
  /\ cacheEvent' = [NoCacheEvent EXCEPT !.op = "delete", !.key = key]
  /\ UNCHANGED <<pending, storeVars, pubsubVars>>

\* lines 36-42, 96-102: getSetCb with a producer that returns value, or
\* [expirationTime, value]
GetSetCb(key, now, expirationTime, value) ==
  LET call == ~Truthy(CacheHas(cache, key, now))
      after == IF call THEN CacheSet(cache, key, expirationTime, value) ELSE cache
  IN /\ cache.kind \in CacheKinds
     /\ Relevant(now, expirationTime)
     /\ ~call => expirationTime = Num(0) /\ value = Null
     /\ cache' = after
     /\ cacheEvent' = [NoCacheEvent EXCEPT !.op = "getSetCb", !.key = key,
                         !.now = now, !.result = CacheGet(after, key, now),
                         !.produced = IF call THEN 1 ELSE 0]
     /\ UNCHANGED <<pending, storeVars, pubsubVars>>

\* lines 43-46, 103-106: getSetCbAsync up to its await; without the await
\* it returns at once
GetSetCbAsync(p, key, now) ==
  /\ cache.kind \in CacheKinds
  /\ Relevant(now, Num(0))
  /\ pending[p].pc = "idle"
  /\ \A q \in 1..(p - 1) : pending[q].pc # "idle"
  /\ IF Truthy(CacheHas(cache, key, now))
     THEN /\ cacheEvent' = [NoCacheEvent EXCEPT !.op = "getSetCbAsync",
                              !.key = key, !.now = now, !.call = p,
                              !.result = CacheGet(cache, key, now)]
          /\ pending' = [pending EXCEPT ![p].pc = "done"]
     ELSE /\ cacheEvent' = [NoCacheEvent EXCEPT !.op = "producer", !.key = key,
                              !.now = now, !.call = p, !.produced = 1]
          /\ pending' = [pending EXCEPT ![p] =
                           [pc |-> "producer", key |-> key, now |-> now,
                            gave |-> Absent]]
  /\ UNCHANGED <<cache, storeVars, pubsubVars>>

\* what a producer resolves to: a value for a LazyCache, a pair
\* [expirationTime, value] for an ExpiringLazyCache
Produced(kind, expirationTime, value) ==
  IF kind = "LazyCache" THEN value ELSE Pair(expirationTime, value)

ProducerResolves_FirstWins(p, expirationTime, value) ==
  /\ pending[p].pc = "producer"
  /\ Relevant(0, expirationTime)
  /\ cache' = IF cache.data[pending[p].key] = Absent
              THEN CacheSet(cache, pending[p].key, expirationTime, value)
              ELSE cache
  /\ pending' = [pending EXCEPT ![p].pc = "resume",
                   ![p].gave = Produced(cache.kind, expirationTime, value)]
  /\ cacheEvent' = [NoCacheEvent EXCEPT !.op = "setCbAsync",
                      !.key = pending[p].key, !.call = p]
  /\ UNCHANGED <<storeVars, pubsubVars>>

\* lines 33-35, 92-95: the producer of call p resolves and setCbAsync sets
\* what it gave
ProducerResolves(p, expirationTime, value) ==
  /\ pending[p].pc = "producer"
  /\ Relevant(0, expirationTime)
  /\ cache' = CacheSet(cache, pending[p].key, expirationTime, value)
  /\ pending' = [pending EXCEPT ![p].pc = "resume",
                   ![p].gave = Produced(cache.kind, expirationTime, value)]
  /\ cacheEvent' = [NoCacheEvent EXCEPT !.op = "setCbAsync",
                      !.key = pending[p].key, !.call = p]
  /\ UNCHANGED <<storeVars, pubsubVars>>

\* lines 48, 108: call p goes on after its await and returns get(key)
Resume(p) ==
  /\ pending[p].pc = "resume"
  /\ cacheEvent' = [NoCacheEvent EXCEPT !.op = "getSetCbAsync",
                      !.key = pending[p].key, !.now = pending[p].now,
                      !.call = p, !.produced = 1,
                      !.result = CacheGet(cache, pending[p].key, pending[p].now)]
  /\ pending' = [pending EXCEPT ![p] =
                   [NoPending EXCEPT !.pc = "done", !.gave = pending[p].gave]]
  /\ UNCHANGED <<cache, storeVars, pubsubVars>>

\* the callers of one behaviour use the synchronous operations of the
\* cache, or getSetCbAsync and delete
InitCache ==
  /\ InitModule
  /\ owner = [c \in Calls |-> 1]
  /\ workload \in {"cache", "async"}

NextCache ==
  \/ \E kind \in CacheKinds : Construct(kind)
  \/ \E key \in CacheKeys : DeleteOp(key)
  \/ /\ workload = "cache"
     /\ \/ \E key \in CacheKeys, expirationTime \in Times, value \in CacheValues :
            SetOp(key, expirationTime, value)
        \/ \E key \in CacheKeys, now \in Nows : HasOp(key, now)
        \/ \E key \in CacheKeys, now \in Nows : GetOp(key, now)
        \/ \E key \in CacheKeys, now \in Nows, expirationTime \in Times,
              value \in CacheValues : GetSetCb(key, now, expirationTime, value)
  \/ /\ workload = "async"
     /\ \/ \E p \in 1..MaxAsync, now \in AsyncNows \cup {0} :
            /\ cache.kind = "ExpiringLazyCache" => now \in AsyncNows
            /\ GetSetCbAsync(p, "a", now)
        \/ \E p \in 1..MaxAsync, expirationTime \in Times, value \in CacheValues :
            ProducerResolves(p, expirationTime, value)
        \/ \E p \in 1..MaxAsync : Resume(p)

SpecCache == InitCache /\ [][NextCache]_vars

(* =============================== claims ================================ *)
\* every call runs on a connection of its own
Separate == \A c, d \in Calls : c # d => owner[c] # owner[d]

\* the step is taken by call c
StepOf(c) == calls'[c] # calls[c]
\* ... and is a commit that was not aborted
CommitOf(c) == calls[c].pc = "exec" /\ calls'[c].commits = calls[c].commits + 1
\* ... and is a commit that was aborted
AbortOf(c) ==
  calls[c].pc = "exec" /\ StepOf(c) /\ calls'[c].commits = calls[c].commits

\* what f gives for a stored raw value, as a raw value
AppliedTo(call, valueRaw) ==
  EncodeNew(call.mode,
            NewValueCallback(call.cb, call.mode, DecodeOld(call.mode, valueRaw)))

EndedPcs == {"done", "failed"}
DoneCalls == {c \in Calls : calls[c].pc = "done"}

IsLimitError(err) ==
  Len(err) > 0 /\ err[1] = "reached watched get set attempt limit"
IsUnexpectedRepliesError(err) ==
  /\ Len(err) = 3
  /\ err[1] = "error during watched get set"
  /\ err[3][1] = "received unexpected replies from redis"

\* C1 (commit): with every writer on its own connection, a commit that
\* succeeds stores f(v) for the value v the key held right before it,
\* and touches no other key.
C1_CommitStoresFOfCurrent ==
  \A c \in Calls :
    (Separate /\ CommitOf(c)) =>
       /\ store'[calls[c].key] = AppliedTo(calls[c], store[calls[c].key])
       /\ \A k \in Keys \ {calls[c].key} : store'[k] = store[k]

\* C1 (count): when all writers increment k1 on connections of their own,
\* a call that returned has committed once, and once every call has ended
\* k1 holds the number of calls that returned.
C1_IncrementsCounted ==
  (workload = "increments" /\ Separate) =>
     /\ \A c \in DoneCalls : calls[c].commits = 1
     /\ (\A c \in Calls : calls[c].pc \in EndedPcs) =>
          store["k1"] = (IF DoneCalls = {} THEN Null
                         ELSE Str(Cardinality(DoneCalls)))

\* C1 (no silent loss): an attempt whose commit was aborted is followed by
\* a new attempt or by an error, never by a normal return.
C1_AbortRetriesOrFails ==
  \A c \in Calls :
    AbortOf(c) =>
       \/ calls'[c].pc = "watch" /\ calls'[c].attempt = calls[c].attempt + 1
       \/ calls'[c].pc = "failed" /\ outcome'.call = c /\ outcome'.err # NoError

\* C1: concurrent watchedGetSet calls on separate connections lose no
\* update: each commit applies f to the current value, increments add up,
\* and an aborted commit is retried or reported.
C1_NoLostUpdate ==
  /\ [][C1_CommitStoresFOfCurrent /\ C1_AbortRetriesOrFails]_vars
  /\ []C1_IncrementsCounted

\* two increments on separate connections have both returned: k1 holds 2
C1_Witness ==
  /\ workload = "increments" /\ Separate
  /\ Cardinality(DoneCalls) >= 2
  /\ store["k1"] = Str(Cardinality(DoneCalls))

\* C2: when the new raw value equals the raw value just read (null for an
\* absent key included), the call ends in that step: no write, no commit
\* (store, watches and flags of every connection are unchanged), and the
\* old value is returned.
C2_NoOpStep ==
  \A c \in Calls :
    (/\ calls[c].pc = "callback" /\ StepOf(c)
     /\ calls[c].cb # "throw"
     /\ AppliedTo(calls[c], calls[c].oldValueRaw) = calls[c].oldValueRaw) =>
       /\ store' = store
       /\ conns' = conns
       /\ calls'[c].pc = "done"
       /\ calls'[c].commits = 0
       /\ outcome' = Returned(c, DecodeOld(calls[c].mode, calls[c].oldValueRaw))

C2_NoOpWritesNothing == [][C2_NoOpStep]_vars

\* a call has just returned the value it read, without a commit
C2_Witness ==
  \E c \in Calls :
    /\ outcome.call = c /\ outcome.err = NoError /\ outcome.result # Null
    /\ calls[c].pc = "done" /\ calls[c].commits = 0
    /\ store["k1"] # Null

\* C3: a call whose callback returns null, on a key that holds a value,
\* goes on to a commit; when that commit succeeds it has deleted the key
\* (the key is absent, a get gives null) and the call returns null.
C3_NullStep ==
  \A c \in Calls :
    (calls[c].cb = "null" /\ StepOf(c)) =>
       /\ (calls[c].pc = "callback" /\ calls[c].oldValueRaw # Null) =>
             calls'[c].pc = "exec"
       /\ (calls[c].pc = "exec" /\ calls'[c].pc = "done") =>
             /\ store[calls[c].key] # Null
             /\ store'[calls[c].key] = Null
             /\ RedisGet(store', calls[c].key) = Null
             /\ outcome' = Returned(c, Null)

C3_NullDeletesKey == [][C3_NullStep]_vars

\* a call has just deleted its key and returned null
C3_Witness ==
  \E c \in Calls :
    /\ outcome = Returned(c, Null)
    /\ calls[c].pc = "done" /\ calls[c].commits = 1
    /\ store["k1"] = Null

\* C4: an aborted commit is followed by another attempt while attempts
\* are left; the abort of attempt number `attempts` raises the attempt
\* limit error with the key and the limit; an aborted commit writes
\* nothing, so a call that ends with that error has written nothing.
C4_AbortStep ==
  \A c \in Calls :
    AbortOf(c) =>
       /\ store' = store
       /\ IF calls[c].attempt < calls[c].attempts
          THEN /\ calls'[c].pc = "watch"
               /\ calls'[c].attempt = calls[c].attempt + 1
               /\ outcome' = NoOutcome
          ELSE /\ calls[c].attempt = calls[c].attempts
               /\ calls'[c].pc = "failed"
               /\ outcome' = Threw(c, LimitError(calls[c].key, calls[c].attempts))

C4_LimitErrorState ==
  IsLimitError(outcome.err) =>
     /\ outcome.err = LimitError("k1", Attempts)
     /\ calls[outcome.call].pc = "failed"
     /\ calls[outcome.call].commits = 0

C4_AttemptLimit == [][C4_AbortStep]_vars /\ []C4_LimitErrorState

\* a call has just raised the attempt limit error
C4_Witness == IsLimitError(outcome.err)

\* C5: no call ends with the unexpected replies error: a commit that is
\* not aborted gets "OK" for its set and 1 for its del.
C5_NoUnexpectedReplies == ~IsUnexpectedRepliesError(outcome.err)

\* the handlers registered for a channel, in order
HandlersOf(mh, channel) == IF channel \in DOMAIN mh THEN mh[channel] ELSE <<>>

\* C6: a message never invokes a handler whose removeMessageHandler has
\* returned (and that was not registered again), and a message for a
\* channel without handlers invokes nothing and raises nothing.
C6_RemovedHandlerNeverInvoked ==
  event.op = "message" =>
     /\ \A i \in 1..Len(event.invoked) :
          <<event.channel, event.invoked[i][1]>> \notin removed
     /\ ~HasMessageHandlers(event.channel) =>
          (event.invoked = <<>> /\ ~event.raised)

\* C7: whenever the subscriber connection exists, it is subscribed to
\* exactly the channels that have an entry in the handler registry.
C7_SubscribedIffRegistered ==
  subscriberClient # 0 =>
     subConns[subscriberClient].subscribed = DOMAIN messageHandlers

\* a list without the first occurrence of a handler
RECURSIVE WithoutFirst(_, _)
WithoutFirst(handlers, handler) ==
  IF handlers = <<>> THEN <<>>
  ELSE IF Head(handlers) = handler THEN Tail(handlers)
  ELSE <<Head(handlers)>> \o WithoutFirst(Tail(handlers), handler)

\* C8: removeMessageHandler(channel, handler) takes the one entry of that
\* handler out of the list of the channel and keeps the others in order;
\* for a handler that is not registered on the channel it changes neither
\* the registry nor the subscriptions.
C8_RemoveStep ==
  event'.op = "removeMessageHandler" =>
     LET before == HandlersOf(messageHandlers, event'.channel)
         after == HandlersOf(messageHandlers', event'.channel)
     IN IF \E i \in 1..Len(before) : before[i] = event'.handler
        THEN /\ after = WithoutFirst(before, event'.handler)
             /\ \A ch \in Channels \ {event'.channel} :
                  HandlersOf(messageHandlers', ch) = HandlersOf(messageHandlers, ch)
        ELSE /\ messageHandlers' = messageHandlers
             /\ subConns' = subConns

C8_RemovesOnlyThatHandler == [][C8_RemoveStep]_vars

\* C9: after removeAllMessageHandlers(channel) no handler is registered
\* for the channel, and the unsubscribe was issued for a channel that had
\* handlers, whatever their number and whether or not the subscriber
\* connection exists.
C9_RemoveAllStep ==
  event'.op = "removeAllMessageHandlers" =>
     /\ ~(event'.channel \in DOMAIN messageHandlers')
     /\ HasMessageHandlers(event'.channel) => event'.unsubscribed

C9_RemoveAllClears == [][C9_RemoveAllStep]_vars

\* C10: a message invokes every handler registered for its channel once,
\* in order, with the payload of the message, whichever of them throw or
\* reject, and the dispatch raises nothing.
C10_MessageStep ==
  event'.op = "message" =>
     \E conn \in 1..Len(subConns) :
       /\ subConns[conn].inbox # <<>>
       /\ subConns' = [subConns EXCEPT ![conn].inbox = Tail(@)]
       /\ LET channel == Head(subConns[conn].inbox)[1]
              message == Head(subConns[conn].inbox)[2]
              handlers == HandlersOf(messageHandlers, channel)
          IN /\ event'.channel = channel
             /\ event'.message = message
             /\ event'.invoked =
                  [i \in 1..Len(handlers) |-> <<handlers[i], message>>]
             /\ ~event'.raised
             /\ messageHandlers' = messageHandlers

C10_EveryHandlerInvoked == [][C10_MessageStep]_vars

\* a message went to two handlers although the first of them failed
C10_Witness ==
  /\ event.op = "message"
  /\ Len(event.invoked) >= 2
  /\ event.logged # <<>>
  /\ event.logged[1] = event.invoked[1][1]
  /\ event.invoked[2][1] # event.invoked[1][1]

\* the command connections instance 1 has created, and those of them that
\* are closed
CommandConns(cs) == {conn \in DOMAIN cs : conn[1] = 1}
AllClosed(cs) == \A conn \in CommandConns(cs) : cs[conn].closed
AllSubClosed(scs) == \A n \in 1..Len(scs) : scs[n].closed
\* the step is a call of get, getObject, set, setObject or publishMessage,
\* or the start of a watchedGetSet call
OperationStep ==
  \/ outcome'.op \in ClientOps
  \/ \E c \in Calls : calls[c].pc = "idle" /\ calls'[c].pc = "watch"

\* C11 (error event): after an error event of a connection the handle is
\* null and every connection created so far, the one of the event
\* included, is closed.
C11_ErrorStep ==
  /\ outcome'.op = "error" =>
       /\ client'[1] = 0
       /\ outcome'.args \in DOMAIN conns'
       /\ AllClosed(conns')
  /\ event'.op = "error" =>
       /\ subscriberClient' = 0
       /\ AllSubClosed(subConns')

\* C11 (lazy creation): an operation that finds the handle null creates a
\* connection, which is new and open and becomes the handle, unless the
\* creation fails and the operation with it.
C11_NextOperationCreates ==
  /\ (OperationStep /\ client[1] = 0) =>
       \/ /\ NumConns(conns', 1) = NumConns(conns, 1) + 1
          /\ client'[1] = NumConns(conns', 1)
          /\ ~conns'[ConnOf(1)'].closed
       \/ /\ outcome'.err = CreateClientError(CredentialsFailure)
          /\ client'[1] = 0 /\ conns' = conns
  /\ (event'.op = "registerMessageHandler" /\ subscriberClient = 0) =>
       /\ Len(subConns') = Len(subConns) + 1
       /\ subscriberClient' = Len(subConns')
       /\ ~subConns'[subscriberClient'].closed

\* C11 (no other creation): a connection is created only by an operation
\* that finds the handle null.
C11_CreatedOnlyThen ==
  /\ DOMAIN conns' # DOMAIN conns => OperationStep /\ client[1] = 0
  /\ Len(subConns') # Len(subConns) =>
       event'.op = "registerMessageHandler" /\ subscriberClient = 0

\* C11: an error event leaves the handle null and the connection closed,
\* the next operation creates a new connection, and connections are
\* created at no other moment.
C11_LazyReconnect ==
  [][C11_ErrorStep /\ C11_NextOperationCreates /\ C11_CreatedOnlyThen]_vars

\* after an error event on the first command connection an operation has
\* run on a second one
C11_Witness ==
  /\ workload = "errors"
  /\ outcome.op \in ClientOps /\ outcome.err = NoError
  /\ client[1] = 2
  /\ conns[<<1, 1>>].closed /\ ~conns[<<1, 2>>].closed

\* the entry of an ExpiringLazyCache for the key: its expiration time as
\* a number and its value, when there is one
IsExpiring(c) == c.kind = "ExpiringLazyCache"
HasEntry(c, key) == c.data[key] # Absent
TimeOf(c, key) == c.data[key][2][2]
ValueOf(c, key) == c.data[key][3]
\* the entry has a truthy expiration time and `now` is within its grace
\* window
ValidAt(c, key, now) ==
  /\ HasEntry(c, key)
  /\ TimeOf(c, key) # 0
  /\ now <= TimeOf(c, key) + DEFAULT_EXPIRING_GAP

\* C12 (get): with an entry of a truthy expiration time t and a value v
\* that is not null, get(key, now) returns v up to t + gap and null from
\* t + gap + 1 on; with a falsy expiration time it returns null.
C12_GetStep ==
  (cacheEvent'.op = "get" /\ IsExpiring(cache) /\ HasEntry(cache, cacheEvent'.key)) =>
     LET t == TimeOf(cache, cacheEvent'.key)
         v == ValueOf(cache, cacheEvent'.key)
         now == cacheEvent'.now
     IN /\ (t # 0 /\ v # Null /\ now <= t + DEFAULT_EXPIRING_GAP) =>
             cacheEvent'.result = v
        /\ (t # 0 /\ now >= t + DEFAULT_EXPIRING_GAP + 1) =>
             cacheEvent'.result = Null
        /\ t = 0 => cacheEvent'.result = Null

\* C12 (has): has(key, now) is truthy exactly when get(key, now) gives the
\* stored value, and never for a falsy expiration time.
C12_HasStep ==
  (cacheEvent'.op = "has" /\ IsExpiring(cache) /\ HasEntry(cache, cacheEvent'.key)) =>
     LET t == TimeOf(cache, cacheEvent'.key)
         v == ValueOf(cache, cacheEvent'.key)
         now == cacheEvent'.now
     IN /\ v # Null =>
             (Truthy(cacheEvent'.result) <=>
                ExpiringLazyCache_get(cache.data, cacheEvent'.key, now) = v)
        /\ Truthy(cacheEvent'.result) <=>
             (t # 0 /\ now <= t + DEFAULT_EXPIRING_GAP)

\* C12: an entry of an ExpiringLazyCache is valid from its set up to its
\* expiration time plus the grace window, has and get agree on that, and
\* an entry with a falsy expiration time is never valid.
C12_ValidWithinGap == [][C12_GetStep /\ C12_HasStep]_vars

\* get at the last valid timestamp t + gap returned the value
C12_Witness ==
  /\ IsExpiring(cache)
  /\ cacheEvent.op = "get"
  /\ cache.data["a"] = Pair(Num(1), Num(7))
  /\ cacheEvent.now = 1 + DEFAULT_EXPIRING_GAP
  /\ cacheEvent.result = Num(7)

\* the key was set with an explicit null value
ExplicitNull(c, key) ==
  IF IsExpiring(c) THEN HasEntry(c, key) /\ ValueOf(c, key) = Null
  ELSE c.data[key] = Null

\* C13: has, get and getSetCb on a key that was set with an explicit null
\* give what they give on a cache in which the key was never populated,
\* and getSetCb invokes the producer as it does there.
C13_NullStep ==
  (cache.kind \in CacheKinds /\ ExplicitNull(cache, cacheEvent'.key)) =>
     LET never == NewCache(cache.kind)
         key == cacheEvent'.key
         now == cacheEvent'.now
     IN /\ cacheEvent'.op = "has" => cacheEvent'.result = CacheHas(never, key, now)
        /\ cacheEvent'.op = "get" => cacheEvent'.result = CacheGet(never, key, now)
        /\ cacheEvent'.op = "getSetCb" => cacheEvent'.produced = 1
        /\ cacheEvent'.op = "getSetCbAsync" => cacheEvent'.produced = 1

C13_NullIsAbsent == [][C13_NullStep]_vars

\* C14: a call of get, getObject, set, setObject or publishMessage whose
\* connection cannot be created ends with the creation error around the
\* cause; one whose command fails ends with the command error that names
\* the method and the arguments and keeps the cause; neither returns
\* normally.
C14_FailedStep ==
  outcome'.op \in ClientOps =>
     LET argsObject == outcome'.args[1]
         createFails == outcome'.args[2]
         commandFails == outcome'.args[3]
     IN /\ createFails =>
             outcome'.err = CreateClientError(CredentialsFailure)
        /\ commandFails =>
             outcome'.err = ClientExecError(FunctionName(outcome'.op),
                                            argsObject, CommandFailure)

C14_FailureSurfaces == [][C14_FailedStep]_vars

\* C15: every channel that has an entry in the registry has at least one
\* handler in its list.
C15_NoEmptyHandlerList ==
  \A channel \in DOMAIN messageHandlers : Len(messageHandlers[channel]) >= 1

\* the last handler of a channel was removed and its entry went with it,
\* while the other channel kept its handlers
C15_Witness ==
  /\ event.op = "removeMessageHandler"
  /\ event.unsubscribed
  /\ ~HasMessageHandlers(event.channel)
  /\ DOMAIN messageHandlers # {}

\* C16: the steps of a call go watch, read, computeNewValue, commit within
\* every attempt; the read takes the value the key holds then,
\* computeNewValue gets that value decoded, and a new attempt starts over
\* at the watch without the value of the attempt before.
C16_OrderStep ==
  \A c \in Calls :
    StepOf(c) =>
      LET call == calls[c]
          next == calls'[c]
      IN /\ call.pc = "idle" => next.pc = "watch" /\ next.attempt = 1
         /\ call.pc = "watch" =>
              next.pc = "get" /\ next.attempt = call.attempt
         /\ call.pc = "get" =>
              /\ next.pc = "callback" /\ next.attempt = call.attempt
              /\ next.oldValueRaw = store[call.key]
         /\ call.pc = "callback" =>
              LET oldValue == IF call.mode = MODE.RAW \/ call.oldValueRaw = Null
                              THEN call.oldValueRaw
                              ELSE Num(call.oldValueRaw[2])
              IN \/ /\ next.pc = "exec" /\ next.attempt = call.attempt
                    /\ next.oldValueRaw = call.oldValueRaw
                    /\ next.newValue = NewValueCallback(call.cb, call.mode, oldValue)
                 \/ /\ next.pc = "done"
                    /\ outcome' = Returned(c, oldValue)
                 \/ /\ next.pc = "failed" /\ call.cb = "throw"
         /\ call.pc = "exec" =>
              \/ /\ next.pc = "watch" /\ next.attempt = call.attempt + 1
                 /\ next.oldValueRaw = Null /\ next.newValue = Null
              \/ next.pc \in EndedPcs
         /\ call.pc \notin EndedPcs

C16_AttemptOrder == [][C16_OrderStep]_vars

\* a later attempt is about to commit what it computed from a value that
\* its own read found
C16_Witness ==
  \E c \in Calls :
    /\ calls[c].pc = "exec" /\ calls[c].attempt >= 2
    /\ calls[c].oldValueRaw # Null
    /\ calls[c].oldValueRaw = store[calls[c].key]

\* C17 (at most one): no call has committed more than once, and a call
\* that ended with the attempt limit error has committed nothing.
C17_AtMostOne ==
  /\ \A c \in Calls : calls[c].commits <= 1
  /\ IsLimitError(outcome.err) => calls[outcome.call].commits = 0

\* C17 (ends): the step of a commit that was not aborted ends the call.
C17_CommitEnds ==
  \A c \in Calls : CommitOf(c) =>
     /\ calls'[c].pc \in EndedPcs
     /\ outcome'.call = c

\* C17: a call commits at most one write, ends with it, and has committed
\* nothing when it ends with the attempt limit error.
C17_AtMostOneCommit == [][C17_CommitEnds]_vars /\ []C17_AtMostOne

\* a call returned after it committed in a later step than another call
\* that ended with the attempt limit error
C17_Witness ==
  /\ outcome.call # 0 /\ outcome.err = NoError
  /\ calls[outcome.call].commits = 1
  /\ \E c \in Calls : calls[c].pc = "failed" /\ calls[c].commits = 0

\* the call shares its command connection with another call
Shares(c) == \E d \in Calls \ {c} : owner[d] = owner[c]

\* C19 (commit): a commit that succeeds on a connection shared with
\* another call stores f(v) for the value v the key held right before it.
C19_SharedCommitStep ==
  \A c \in Calls :
    (Shares(c) /\ CommitOf(c)) =>
       store'[calls[c].key] = AppliedTo(calls[c], store[calls[c].key])

\* C19: calls that overlap on the one command connection of a process lose
\* no update: every commit applies f to the value the key holds then.
C19_SharedNoLostUpdate == [][C19_SharedCommitStep]_vars

\* C20 (step): the commit of an attempt runs on the connection on which
\* the watch of that attempt was placed.
C20_CommitStep ==
  \A c \in Calls :
    CommitOf(c) => client[owner[c]] = calls[c].conn

\* C20: after an error event and a new connection made by another
\* operation, a suspended call does not commit on a connection that does
\* not hold its watch.
C20_CommitOnWatchedConnection == [][C20_CommitStep]_vars

\* what get(key, now) is to give: the stored value of an entry valid at
\* now, and null otherwise
FoundAt(c, key, now) ==
  IF ValidAt(c, key, now) THEN ValueOf(c, key) ELSE Null

\* C18 (getSetCb): the producer is invoked once when the entry is absent
\* or not valid at now and not at all when it is valid, in which case the
\* cache is left as it is; the result is the stored value of an entry
\* valid at now after that, and null otherwise.
C18_GetSetCbStep ==
  (cacheEvent'.op = "getSetCb" /\ IsExpiring(cache)) =>
     LET key == cacheEvent'.key
         now == cacheEvent'.now
     IN /\ cacheEvent'.produced = (IF ValidAt(cache, key, now) THEN 0 ELSE 1)
        /\ ValidAt(cache, key, now) => cache' = cache
        /\ cacheEvent'.result = FoundAt(cache', key, now)

\* C18 (getSetCbAsync): a call invokes its producer, once, exactly when
\* the entry is absent or not valid at now at the time of the call, and
\* what it returns is the stored value of an entry valid at now at the
\* time of the return, and null otherwise.
C18_GetSetCbAsyncStep ==
  LET p == cacheEvent'.call
      key == cacheEvent'.key
      now == cacheEvent'.now
  IN /\ (cacheEvent'.op = "producer" /\ IsExpiring(cache)) =>
          /\ pending[p].pc = "idle" /\ pending'[p].pc = "producer"
          /\ ~ValidAt(cache, key, now)
     /\ (cacheEvent'.op = "getSetCbAsync" /\ IsExpiring(cache)) =>
          /\ cache' = cache
          /\ cacheEvent'.result = FoundAt(cache, key, now)
          /\ pending'[p].pc = "done"
          /\ \/ /\ pending[p].pc = "idle" /\ cacheEvent'.produced = 0
                /\ ValidAt(cache, key, now)
             \/ /\ pending[p].pc = "resume" /\ cacheEvent'.produced = 1

\* C18: getSetCb and getSetCbAsync of an ExpiringLazyCache invoke the
\* producer once for an entry that is absent or not valid at now and not
\* for a valid one, and give the stored value of a valid entry or null.
C18_ProducerOnceAndResult == [][C18_GetSetCbStep /\ C18_GetSetCbAsyncStep]_vars

\* getSetCb at now = 102 invoked the producer, which gave the expiration
\* time 1: 1 + gap < now, the refreshed entry is not valid, the result null
C18_Witness ==
  /\ IsExpiring(cache)
  /\ cacheEvent.op = "getSetCb" /\ cacheEvent.produced = 1
  /\ cacheEvent.now = 2 + DEFAULT_EXPIRING_GAP
  /\ cache.data["a"] = Pair(Num(1), Num(7))
  /\ cacheEvent.result = Null

\* the call holds a watch of the current attempt: placed, not yet executed
HoldsWatch(c) == calls[c].pc \in {"get", "callback", "exec"}

\* C21 (watches): once the calls of an instance have ended, on whatever
\* path, none of the watches they placed is left on the command connection
\* of the instance.
C21_NoWatchLeft ==
  \A i \in Instances :
    (client[i] # 0 /\ \A c \in Calls : owner[c] = i => ~HoldsWatch(c)) =>
       conns[ConnOf(i)].watching = {}

\* C21 (aborts): a commit for k2 of a call that is the only one in flight
\* is aborted only when k2 no longer holds what the call read (k2 is
\* written by the commits of its own calls only).
C21_AbortStep ==
  \A c \in Calls :
    (/\ AbortOf(c) /\ calls[c].key = "k2"
     /\ \A d \in Calls \ {c} : ~HoldsWatch(d)) =>
       store["k2"] # calls[c].oldValueRaw

\* C21: a call that ended leaves no watch behind, and a commit for k2 is
\* never aborted because of a write to k1, a key an earlier call watched.
C21_NoStaleWatch == []C21_NoWatchLeft /\ [][C21_AbortStep]_vars

\* how often the handler is in the list, or was invoked
TimesIn(handlers, handler) ==
  Cardinality({i \in 1..Len(handlers) : handlers[i] = handler})
TimesInvoked(invoked, handler) ==
  Cardinality({i \in 1..Len(invoked) : invoked[i][1] = handler})

\* C22 (step): a message event invokes every handler that was registered
\* for the channel when the message arrived as often as it was registered
\* then, and no other handler.
C22_DispatchStep ==
  event'.op = "message" =>
    \A handler \in Handlers :
      TimesInvoked(event'.invoked, handler) =
        (IF HasMessageHandlers(event'.channel)
         THEN TimesIn(messageHandlers[event'.channel], handler) ELSE 0)

\* C22: the handlers invoked for a message are those registered at its
\* arrival, each once, also when a handler removes or registers a handler
\* of the channel while the dispatch is running.
C22_DispatchOfArrivalSet == [][C22_DispatchStep]_vars

\* C23 (command): the error listener of a command connection returns and
\* the handle `client` of the instance is null after it.
C23_ClientErrorStep ==
  (workload = "errors" /\ outcome'.op = "error") =>
     /\ outcome'.err = NoError
     /\ client'[outcome'.args[1]] = 0

\* C23 (subscriber): the error listener of a subscriber connection returns
\* and the handle `subscriberClient` is null after it.
C23_SubscriberErrorStep ==
  (workload = "subscriber" /\ event'.op = "error") =>
     /\ ~event'.raised
     /\ subscriberClient' = 0

\* C23: handling an error event never throws and leaves the handle null,
\* for both connections, also for an error event that arrives when the
\* handle is null already.
C23_ErrorEventNeverThrows ==
  [][C23_ClientErrorStep /\ C23_SubscriberErrorStep]_vars

\* C24 (producer): a call that finds no entry (LazyCache) or no entry valid
\* at now (ExpiringLazyCache) invokes its producer, whether or not other
\* calls are waiting for theirs, and goes on to its return only through
\* the completion of that producer.
C24_ProducerStep ==
  \A p \in 1..MaxAsync :
    /\ (pending[p].pc = "idle" /\ pending'[p].pc # "idle") =>
         LET key == cacheEvent'.key
             now == cacheEvent'.now
             found == IF IsExpiring(cache) THEN ValidAt(cache, key, now)
                      ELSE HasEntry(cache, key)
         IN /\ cacheEvent'.call = p
            /\ ~found => cacheEvent'.op = "producer" /\ pending'[p].pc = "producer"
            /\ found => cacheEvent'.op = "getSetCbAsync" /\ cacheEvent'.produced = 0
    /\ (pending[p].pc = "producer" /\ pending'[p].pc # "producer") =>
         pending'[p].pc = "resume" /\ cacheEvent'.op = "setCbAsync"
    /\ (pending[p].pc = "resume" /\ pending'[p].pc # "resume") =>
         pending'[p].pc = "done" /\ cacheEvent'.produced = 1
    /\ pending[p].pc = "done" => pending'[p].pc = "done"

\* C24 (stored): a producer that completes overwrites the entry of the key
\* with what it gave, so the entry is that of the producer that completed
\* last.
C24_StoreStep ==
  cacheEvent'.op = "setCbAsync" =>
    LET p == cacheEvent'.call
    IN /\ pending'[p].gave # Absent
       /\ cache'.data[cacheEvent'.key] = pending'[p].gave

\* C24 (returned): a call that resumes returns what the cache holds for
\* the key at that moment, whichever producer stored it.
C24_ResumeStep ==
  (cacheEvent'.op = "getSetCbAsync" /\ cacheEvent'.produced = 1) =>
    LET key == cacheEvent'.key
        now == cacheEvent'.now
    IN /\ cache' = cache
       /\ IsExpiring(cache) => cacheEvent'.result = FoundAt(cache, key, now)
       /\ ~IsExpiring(cache) =>
            cacheEvent'.result =
              (IF HasEntry(cache, key) THEN cache.data[key] ELSE Undefined)

\* C24: overlapping getSetCbAsync calls for a key each invoke their own
\* producer once, the producer that completes last determines the entry,
\* and each call returns what is stored when it resumes.
C24_NoSingleFlight ==
  [][C24_ProducerStep /\ C24_StoreStep /\ C24_ResumeStep]_vars

\* two calls overlapped on the absent key of a LazyCache: the producer of
\* call 1 gave null, that of call 2 gave 7 and completed later, and call 1
\* returned 7
C24_Witness ==
  /\ cache.kind = "LazyCache"
  /\ cacheEvent.op = "getSetCbAsync" /\ cacheEvent.call = 1
  /\ cacheEvent.produced = 1 /\ cacheEvent.result = Num(7)
  /\ pending[1].gave = Null
  /\ pending[2].pc = "resume" /\ pending[2].gave = Num(7)

====
